---- MODULE Spec2Model ----
(***************************************************************************)
(* The coroutine library of piccolo (src/stdlib/coroutine.rs): the native  *)
(* callbacks create, resume, status and yield, and the ThreadSequence that *)
(* resume hands to the dispatch loop.  The Thread object, the values and   *)
(* the errors are collaborators whose code lives elsewhere in the crate;   *)
(* they are modelled from their documented contract.                       *)
(***************************************************************************)
EXTENDS Integers, Sequences, FiniteSets, TLC

VARIABLES
    threads,    \* the heap of Thread objects, indexed by allocation order
    stack,      \* the operand stack handed to the running callback / sequence
    seq,        \* "none" | "active": the ThreadSequence owned by the dispatch loop
    outcome,    \* what the last call or sequence step returned
    last,       \* the last operation, with what it observed and did
    delivered,  \* the threads whose final return values a resume has delivered
    heap,       \* the callback and continuation allocations, in allocation order
    made,       \* what each construction was given, in the same order
    cblast      \* the last operation on a callback or continuation

vars == <<threads, stack, seq, outcome, last, delivered, heap, made, cblast>>

\* Bounds of the exploration.
MaxThreads == 2
MaxAllocs == 2

(***************************************************************************)
(* Values                                                                  *)
(***************************************************************************)
\* Interned static strings; a string value holds the index of its text.
StrTab == <<"dead", "running", "normal", "suspended", "cannot resume thread",
            "boom", "TypeError", "BadThreadMode", "none", "Panic">>

StrId(s) == CHOOSE i \in 1..Len(StrTab) : StrTab[i] = s

Nil == [kind |-> "Nil", v |-> 0]
Boolean(b) == [kind |-> "Boolean", v |-> IF b THEN 1 ELSE 0]
Integer(n) == [kind |-> "Integer", v |-> n]
String(s) == [kind |-> "String", v |-> StrId(s)]
FunctionValue(f) == [kind |-> "Function", v |-> f]
ThreadValue(t) == [kind |-> "Thread", v |-> t]

\* Value::type_name
TypeName(value) ==
    CASE value.kind = "Nil" -> "nil"
      [] value.kind = "Boolean" -> "boolean"
      [] value.kind = "Integer" -> "number"
      [] value.kind = "String" -> "string"
      [] value.kind = "Function" -> "function"
      [] value.kind = "Thread" -> "thread"

(***************************************************************************)
(* Errors                                                                  *)
(***************************************************************************)
NoError == [kind |-> "none", expected |-> "", found |-> "", value |-> Nil]
TypeError(expected, found) ==
    [kind |-> "TypeError", expected |-> expected, found |-> found, value |-> Nil]
BadThreadMode(expected, found) ==
    [kind |-> "BadThreadMode", expected |-> expected, found |-> found, value |-> Nil]
RuntimeError(value) ==
    [kind |-> "RuntimeError", expected |-> "", found |-> "", value |-> value]
StepError ==
    [kind |-> "StepError", expected |-> "", found |-> "", value |-> Nil]

\* Error::to_value: a runtime error carries a script value, any other error
\* is shown as a string.
ToValue(err) ==
    IF err.kind = "RuntimeError" THEN err.value ELSE String(err.kind)

(***************************************************************************)
(* Execution outcomes (CallbackReturn, and the results of a step)          *)
(***************************************************************************)
Outcome(tag) == [tag |-> tag, cont |-> "none", err |-> NoError]
YieldOutcome(cont) == [tag |-> "Yield", cont |-> cont, err |-> NoError]
Failed(err) == [tag |-> "Err", cont |-> "none", err |-> err]
Panic(msg) ==
    [tag |-> "Panic", cont |-> "none",
     err |-> [kind |-> "Panic", expected |-> "", found |-> msg, value |-> Nil]]

(***************************************************************************)
(* Script functions: what a coroutine's function does when it is stepped.  *)
(* The last one never finishes: every step leaves it where it was.         *)
(***************************************************************************)
Work == [op |-> "work", vals |-> <<>>, err |-> NoError]
YieldOp(vals) == [op |-> "yield", vals |-> vals, err |-> NoError]
ReturnOp(vals) == [op |-> "return", vals |-> vals, err |-> NoError]
ErrorOp(err) == [op |-> "error", vals |-> <<>>, err |-> err]
Loop == [op |-> "loop", vals |-> <<>>, err |-> NoError]

Scripts ==
    << <<ReturnOp(<<Integer(1), Integer(2)>>)>>,
       <<YieldOp(<<Integer(10)>>), ReturnOp(<<Integer(20)>>)>>,
       <<Work, ErrorOp(RuntimeError(String("boom")))>>,
       <<Loop>> >>

Functions == DOMAIN Scripts

(***************************************************************************)
(* Thread                                                                  *)
(***************************************************************************)
Modes == {"Stopped", "Suspended", "Normal", "Running", "Return"}

NoReturn == [some |-> FALSE, ok |-> FALSE, vals |-> <<>>, err |-> NoError]
OkReturn(vals) == [some |-> TRUE, ok |-> TRUE, vals |-> vals, err |-> NoError]
ErrReturn(err) == [some |-> TRUE, ok |-> FALSE, vals |-> <<>>, err |-> err]

\* Thread::new: a fresh thread with no function.
ThreadNew(ths) ==
    Append(ths, [mode |-> "Stopped", fn |-> 0, pc |-> 1,
                 ret |-> NoReturn, yielded |-> FALSE])

\* Thread::start_suspended
StartSuspended(ths, t, f) ==
    IF ths[t].mode = "Stopped"
    THEN [ok |-> TRUE,
          threads |-> [ths EXCEPT ![t].mode = "Suspended", ![t].fn = f, ![t].pc = 1]]
    ELSE [ok |-> FALSE, threads |-> ths]

\* Thread::resume: only a Suspended thread can be resumed.
ThreadResume(ths, t, args) ==
    IF ths[t].mode = "Suspended"
    THEN [ok |-> TRUE, threads |-> [ths EXCEPT ![t].mode = "Normal"]]
    ELSE [ok |-> FALSE, threads |-> ths]

\* One step of the thread's function.
ExecOp(ths, t) ==
    LET o == Scripts[ths[t].fn][ths[t].pc] IN
    CASE o.op = "work" ->
            [ths EXCEPT ![t].mode = "Normal", ![t].pc = @ + 1]
      [] o.op = "loop" ->
            [ths EXCEPT ![t].mode = "Normal"]
      [] o.op = "yield" ->
            [ths EXCEPT ![t].mode = "Return", ![t].pc = @ + 1,
                        ![t].ret = OkReturn(o.vals), ![t].yielded = TRUE]
      [] o.op = "return" ->
            [ths EXCEPT ![t].mode = "Return",
                        ![t].ret = OkReturn(o.vals), ![t].yielded = FALSE]
      [] o.op = "error" ->
            [ths EXCEPT ![t].mode = "Return",
                        ![t].ret = ErrReturn(o.err), ![t].yielded = FALSE]

\* Thread::step: advances a Normal thread; the operation may fail.
ThreadStep(ths, t, fail) ==
    IF ths[t].mode # "Normal"
    THEN [ok |-> FALSE, err |-> BadThreadMode("Normal", ths[t].mode), threads |-> ths]
    ELSE IF fail
    THEN [ok |-> FALSE, err |-> StepError, threads |-> ths]
    ELSE [ok |-> TRUE, err |-> NoError, threads |-> ExecOp(ths, t)]

\* Thread::take_return: the result, once, when the mode is Return.
TakeReturn(ths, t) ==
    IF ths[t].mode = "Return"
    THEN [some |-> TRUE, res |-> ths[t].ret,
          threads |-> [ths EXCEPT ![t].mode = IF ths[t].yielded THEN "Suspended"
                                              ELSE "Stopped",
                                  ![t].ret = NoReturn]]
    ELSE [some |-> FALSE, res |-> NoReturn, threads |-> ths]

(***************************************************************************)
(* The callbacks of load_coroutine, as functions of the heap and the stack *)
(***************************************************************************)
\* What a call did: the new heap, stack and sequence, what it returned, and
\* the thread it looked at (t, 0 for none), the mode it observed there, and
\* which Thread operations it invoked with what.
Result(ths, stk, out, sq, t, mode, resumed, stepped, took, taken, args) ==
    [threads |-> ths, stack |-> stk, outcome |-> out, seq |-> sq,
     t |-> t, mode |-> mode, resumed |-> resumed, stepped |-> stepped,
     steperr |-> NoError, took |-> took, taken |-> taken, args |-> args]

\* A call that touched no thread.
Plain(ths, stk, out, sq) ==
    Result(ths, stk, out, sq, 0, "none", FALSE, FALSE, FALSE, NoReturn, <<>>)

\* stack.get(0).copied().unwrap_or(Value::Nil)
FirstArg(stk) == IF Len(stk) >= 1 THEN stk[1] ELSE Nil

\* stack.drain(..): the thread drained along with its arguments.
AfterDrainAll(stk) == <<>>

\* stack.drain(1..): the values removed, and what is left.
Drained(stk) == IF Len(stk) >= 1 THEN SubSeq(stk, 2, Len(stk)) ELSE <<>>
AfterDrain(stk) == IF Len(stk) >= 1 THEN <<stk[1]>> ELSE <<>>

\* The TypeError of create.
CreateTypeError(value) == TypeError("function", TypeName(value))

\* The TypeError of create copied into resume and status unchanged.
ThreadTypeErrorFunction(value) == TypeError("function", TypeName(value))

\* The TypeError of resume and of status.
ThreadTypeError(value) == TypeError("thread", TypeName(value))

\* create with the stack.clear() forgotten before the push.
CreateCallNoClear(ths, stk) ==
    LET value == FirstArg(stk) IN
    IF value.kind # "Function"
    THEN Plain(ths, stk, Failed(CreateTypeError(value)), "none")
    ELSE LET ths1 == ThreadNew(ths)
             t == Len(ths1)
             r == StartSuspended(ths1, t, value.v)
         IN  IF ~r.ok
             THEN Plain(ths1, stk, Panic("start_suspended"), "none")
             ELSE Plain(r.threads, stk \o <<ThreadValue(t)>>, Outcome("Return"), "none")

\* coroutine.create
CreateCall(ths, stk) ==
    LET value == FirstArg(stk) IN
    IF value.kind # "Function"
    THEN Plain(ths, stk, Failed(CreateTypeError(value)), "none")
    ELSE LET ths1 == ThreadNew(ths)
             t == Len(ths1)
             r == StartSuspended(ths1, t, value.v)
         IN  IF ~r.ok
             THEN Plain(ths1, stk, Panic("start_suspended"), "none")
             ELSE Plain(r.threads, <<ThreadValue(t)>>, Outcome("Return"), "none")

\* map_err(|_| RuntimeError("cannot resume thread"))
CannotResume == RuntimeError(String("cannot resume thread"))

\* resume with the result of the thread's resume transition dropped.
ResumeCallIgnoresError(ths, stk) ==
    LET value == FirstArg(stk) IN
    IF value.kind # "Thread"
    THEN Plain(ths, stk, Failed(ThreadTypeError(value)), "none")
    ELSE LET t == value.v
             args == Drained(stk)
             r == ThreadResume(ths, t, args)
         IN  Result(r.threads, AfterDrain(stk), Outcome("Sequence"), "active",
                    t, ths[t].mode, TRUE, FALSE, FALSE, NoReturn, args)

\* coroutine.resume
ResumeCall(ths, stk) ==
    LET value == FirstArg(stk) IN
    IF value.kind # "Thread"
    THEN Plain(ths, stk, Failed(ThreadTypeError(value)), "none")
    ELSE LET t == value.v
             args == Drained(stk)
             r == ThreadResume(ths, t, args)
         IN  IF ~r.ok
             THEN Result(ths, AfterDrain(stk), Failed(CannotResume), "none",
                         t, ths[t].mode, TRUE, FALSE, FALSE, NoReturn, args)
             ELSE Result(r.threads, AfterDrain(stk), Outcome("Sequence"), "active",
                         t, ths[t].mode, TRUE, FALSE, FALSE, NoReturn, args)

\* status with a finished thread whose result was taken reported as suspended.
StatusNameStoppedSuspended(mode) ==
    CASE mode = "Return" -> "dead"
      [] mode = "Running" -> "running"
      [] mode = "Normal" -> "normal"
      [] mode \in {"Stopped", "Suspended"} -> "suspended"

\* status with a thread holding an untaken result reported as normal.
StatusNameReturnNormal(mode) ==
    CASE mode = "Stopped" -> "dead"
      [] mode = "Running" -> "running"
      [] mode \in {"Normal", "Return"} -> "normal"
      [] mode = "Suspended" -> "suspended"

\* The string status pushes for a mode.
StatusName(mode) ==
    CASE mode \in {"Stopped", "Return"} -> "dead"
      [] mode = "Running" -> "running"
      [] mode = "Normal" -> "normal"
      [] mode = "Suspended" -> "suspended"

\* status clearing the stack before it rejects its argument.
StatusCallClearsFirst(ths, stk) ==
    LET value == FirstArg(stk) IN
    IF value.kind # "Thread"
    THEN Plain(ths, <<>>, Failed(ThreadTypeError(value)), "none")
    ELSE LET t == value.v IN
         Result(ths, <<String(StatusName(ths[t].mode))>>, Outcome("Return"), "none",
                t, ths[t].mode, FALSE, FALSE, FALSE, NoReturn, <<>>)

\* coroutine.status
StatusCall(ths, stk) ==
    LET value == FirstArg(stk) IN
    IF value.kind # "Thread"
    THEN Plain(ths, stk, Failed(ThreadTypeError(value)), "none")
    ELSE LET t == value.v IN
         Result(ths, <<String(StatusName(ths[t].mode))>>, Outcome("Return"), "none",
                t, ths[t].mode, FALSE, FALSE, FALSE, NoReturn, <<>>)

\* yield clearing the stack like the other callbacks do.
YieldCallClears(ths, stk) == Plain(ths, <<>>, YieldOutcome("none"), "none")

\* coroutine.yield
YieldCall(ths, stk) == Plain(ths, stk, YieldOutcome("none"), "none")

(***************************************************************************)
(* ThreadSequence::step                                                    *)
(***************************************************************************)
\* The sequence stepping a Running thread instead of a Normal one.
SeqBranchRunning(mode) ==
    CASE mode = "Return" -> "return"
      [] mode = "Running" -> "step"
      [] OTHER -> "bad"

\* The sequence with the Return and Normal arms exchanged.
SeqBranchSwapped(mode) ==
    CASE mode = "Return" -> "step"
      [] mode = "Normal" -> "return"
      [] OTHER -> "bad"

\* The arm of `match thread.mode()` taken for a mode.
SeqBranch(mode) ==
    CASE mode = "Return" -> "return"
      [] mode = "Normal" -> "step"
      [] OTHER -> "bad"

\* The Return arm with the stack.clear() forgotten.
ReturnStackNoClear(stk, res) ==
    IF res.ok
    THEN stk \o <<Boolean(TRUE)>> \o res.vals
    ELSE stk \o <<Boolean(FALSE), ToValue(res.err)>>

\* What the Return arm leaves on the stack for a taken result: the stack is
\* cleared, then true and the values, or false and the error's value.
ReturnStack(stk, res) ==
    LET cleared == <<>> IN
    IF res.ok
    THEN cleared \o <<Boolean(TRUE)>> \o res.vals
    ELSE cleared \o <<Boolean(FALSE), ToValue(res.err)>>

\* The Return arm raising the thread's error instead of pushing it.
ReturnArmRaises(ths, stk, t) ==
    LET r == TakeReturn(ths, t) IN
    IF ~r.some
    THEN Result(r.threads, <<>>, Panic("take_return"), "none",
                t, ths[t].mode, FALSE, FALSE, TRUE, NoReturn, <<>>)
    ELSE IF r.res.ok
    THEN Result(r.threads, ReturnStack(stk, r.res), Outcome("Return"), "none",
                t, ths[t].mode, FALSE, FALSE, TRUE, r.res, <<>>)
    ELSE Result(r.threads, <<>>, Failed(r.res.err), "none",
                t, ths[t].mode, FALSE, FALSE, TRUE, r.res, <<>>)

\* The Return arm reporting "not done" without taking the result.
ReturnArmNotDone(ths, stk, t) ==
    Result(ths, stk, Outcome("NotDone"), "active",
           t, ths[t].mode, FALSE, FALSE, FALSE, NoReturn, <<>>)

\* ThreadMode::Return => ...
ReturnArm(ths, stk, t) ==
    LET r == TakeReturn(ths, t) IN
    IF ~r.some
    THEN Result(r.threads, <<>>, Panic("take_return"), "none",
                t, ths[t].mode, FALSE, FALSE, TRUE, NoReturn, <<>>)
    ELSE Result(r.threads, ReturnStack(stk, r.res), Outcome("Return"), "none",
                t, ths[t].mode, FALSE, FALSE, TRUE, r.res, <<>>)

\* ThreadMode::Normal => ...; fail: whether the thread's step operation fails.
StepArm(ths, stk, t, fail) ==
    LET r == ThreadStep(ths, t, fail) IN
    IF ~r.ok
    THEN [Result(r.threads, stk, Panic("step"), "none",
                 t, ths[t].mode, FALSE, TRUE, FALSE, NoReturn, <<>>)
            EXCEPT !.steperr = r.err]
    ELSE Result(r.threads, stk, Outcome("NotDone"), "active",
                t, ths[t].mode, FALSE, TRUE, FALSE, NoReturn, <<>>)

\* The bad-mode error with its two fields exchanged.
BadModeSwapped(mode) == BadThreadMode(mode, "Normal")

\* The error of the last arm.
BadMode(mode) == BadThreadMode("Normal", mode)

\* mode => Err(BadThreadMode { .. })
BadArm(ths, stk, t) ==
    Result(ths, stk, Failed(BadMode(ths[t].mode)), "none",
           t, ths[t].mode, FALSE, FALSE, FALSE, NoReturn, <<>>)

\* One step of the sequence.
SeqStepCall(ths, stk, fail) ==
    IF Len(stk) = 0 \/ stk[1].kind # "Thread"
    THEN Plain(ths, stk, Panic("thread lost from stack"), "none")
    ELSE
    LET t == stk[1].v
        branch == SeqBranch(ths[t].mode)
    IN  CASE branch = "return" -> ReturnArm(ths, stk, t)
          [] branch = "step" -> StepArm(ths, stk, t, fail)
          [] OTHER -> BadArm(ths, stk, t)

(***************************************************************************)
(* Callbacks and continuations (callback.rs)                               *)
(***************************************************************************)
\* The capture of the callback of test_dyn_callback.
TestCapture == 17

\* The context of a callback built from a function alone.
Unit == [kind |-> "Unit", v |-> 0]

\* Stack::into_front: the value becomes the first of the stack.
IntoFront(stk, value) == <<value>> \o stk

\* What running an implementation gives: the stack it leaves, its outcome,
\* and the behaviours that ran.
Ran(stk, out, who) == [stack |-> stk, outcome |-> out, ran |-> who]

\* Behaviours a caller supplies: Fn(&Mutation, &mut Stack).
PlainFns == {"clear", "fail"}

PlainFn(f, stk) ==
    IF f = "clear"
    THEN Ran(<<>>, Outcome("Return"), {f})
    ELSE Ran(stk, Failed(RuntimeError(String("boom"))), {f})

\* Behaviours a caller supplies: Fn(&C, &Mutation, &mut Stack).
ContextFns == {"push", "raise"}

ContextFn(f, context, stk) ==
    IF f = "push"
    THEN Ran(IntoFront(stk, context), Outcome("Return"), {f})
    ELSE Ran(stk, Failed(RuntimeError(context)), {f})

\* Failure behaviours a caller supplies: Fn(&Mutation, &mut Stack, Error).
PlainErrFns == {"recover"}

PlainErrFn(f, stk, error) ==
    Ran(IntoFront(stk, ToValue(error)), Outcome("Return"), {f})

\* Failure behaviours a caller supplies: Fn(&C, &Mutation, &mut Stack, Error).
ContextErrFns == {"restore"}

ContextErrFn(f, context, stk, error) ==
    Ran(<<context, ToValue(error)>>, Outcome("Return"), {f})

\* A stored closure: the behaviour it runs and whether it hands the context on.
NoClosure == [args |-> "none", fn |-> "none"]
Closure(f) == [args |-> "context", fn |-> f]

\* move |_, mc, stack| call(mc, stack)
IgnoreContext(f) == [args |-> "ignored", fn |-> f]

\* move |_, _, _, error| Err(error)
Reraise == [args |-> "ignored", fn |-> "reraise"]

\* (self.call)(&self.context, mc, stack)
CallClosure(cl, context, stk) ==
    IF cl.args = "context"
    THEN ContextFn(cl.fn, context, stk)
    ELSE PlainFn(cl.fn, stk)

\* (self.continue_err)(&self.context, mc, stack, error)
CallErrClosure(cl, context, stk, error) ==
    CASE cl.fn = "reraise" -> Ran(stk, Failed(error), {"reraise"})
      [] cl.args = "context" -> ContextErrFn(cl.fn, context, stk, error)
      [] OTHER -> PlainErrFn(cl.fn, stk, error)

\* The addresses of the live allocations.
Addresses(hp) == {hp[i].addr : i \in 1..Len(hp)}

\* Gc::new: the object is placed at an address no live allocation has.
GcNew(hp, addr, object) == Append(hp, [object EXCEPT !.addr = addr])

\* The allocation a pointer refers to.
Deref(hp, ptr) == hp[CHOOSE i \in 1..Len(hp) : hp[i].addr = ptr]

\* AnyCallback(Gc<Header>), AnyContinuation(Gc<dyn Continuation>): one pointer.
Handle(ptr) == [ptr |-> ptr]

\* #[derive(Copy, Clone)]
CopyOf(h) == [ptr |-> h.ptr]

\* struct CB(i64) of test_dyn_callback
CB(n) == [type |-> "CB", context |-> Integer(n), call |-> NoClosure]

\* ContextCallback { context, call }
ContextCallback(context, call) ==
    [type |-> "ContextCallback", context |-> context, call |-> call]

\* AnyCallback::new: the header holds the call function of the callback's type.
New(hp, addr, callback) ==
    GcNew(hp, addr,
          [addr |-> 0, header |-> callback.type, context |-> callback.context,
           call |-> callback.call, continue_ok |-> NoClosure,
           continue_err |-> NoClosure])

\* AnyCallback::from_fn_with
FromFnWith(hp, addr, context, call) ==
    New(hp, addr, ContextCallback(context, call))

\* AnyCallback::from_fn
FromFn(hp, addr, call) == FromFnWith(hp, addr, Unit, IgnoreContext(call))

\* <CB as Callback>::call
CBCall(self, stk) ==
    Ran(IntoFront(stk, self.context), Outcome("Return"), {"CB"})

\* <ContextCallback as Callback>::call
ContextCallbackCall(self, stk) == CallClosure(self.call, self.context, stk)

\* The header's call function for callbacks of the given type: it reads the
\* allocation at ptr as that type and calls its callback.
HeaderCall(type, hp, ptr, stk) ==
    IF type = "CB"
    THEN CBCall(Deref(hp, ptr), stk)
    ELSE ContextCallbackCall(Deref(hp, ptr), stk)

\* AnyCallback::as_ptr
AsPtr(h) == h.ptr

\* A call that goes to the first allocation of the heap.
CallFirst(hp, h, stk) == HeaderCall(hp[1].header, hp, hp[1].addr, stk)

\* AnyCallback::call
Call(hp, h, stk) == HeaderCall(Deref(hp, h.ptr).header, hp, AsPtr(h), stk)

\* The hasher's digest of a pointer: pointers share digests.
HashBuckets == 2
Digest(ptr) == ptr % HashBuckets

\* Hash for AnyCallback
CallbackHash(h) == Digest(AsPtr(h))

\* Equality by digest.
CallbackEqByHash(a, b) == Digest(AsPtr(a)) = Digest(AsPtr(b))

\* PartialEq for AnyCallback
CallbackEq(a, b) == AsPtr(a) = AsPtr(b)

\* AnyContinuation::from_fns_with: ContextContinuation { context, continue_ok,
\* continue_err } behind one pointer.
FromFnsWith(hp, addr, context, continue_ok, continue_err) ==
    GcNew(hp, addr,
          [addr |-> 0, header |-> "ContextContinuation", context |-> context,
           call |-> NoClosure, continue_ok |-> continue_ok,
           continue_err |-> continue_err])

\* AnyContinuation::from_fns
FromFns(hp, addr, continue_ok, continue_err) ==
    FromFnsWith(hp, addr, Unit, IgnoreContext(continue_ok),
                IgnoreContext(continue_err))

\* AnyContinuation::from_ok_fn
FromOkFn(hp, addr, continue_ok) ==
    FromFnsWith(hp, addr, Unit, IgnoreContext(continue_ok), Reraise)

\* AnyContinuation::from_ok_fn_with: the success closure hands the context on.
FromOkFnWith(hp, addr, context, continue_ok) ==
    FromFnsWith(hp, addr, context, Closure(continue_ok.fn), Reraise)

\* AnyContinuation::continue_ok
ContinueOk(hp, k, stk) ==
    CallClosure(Deref(hp, k.ptr).continue_ok, Deref(hp, k.ptr).context, stk)

\* A failure path that runs the success behaviour.
ContinueErrRunsOk(hp, k, stk, error) == ContinueOk(hp, k, stk)

\* AnyContinuation::continue_err
ContinueErr(hp, k, stk, error) ==
    CallErrClosure(Deref(hp, k.ptr).continue_err, Deref(hp, k.ptr).context,
                   stk, error)

(***************************************************************************)
(* The state machine                                                       *)
(***************************************************************************)
\* The record of an operation on a callback or continuation.
CbTrace(op, ptr, pre, error, who) ==
    [op |-> op, ptr |-> ptr, pre |-> pre, err |-> error, ran |-> who]

Trace(op, pre, r) ==
    [op |-> op, pre |-> pre, t |-> r.t, mode |-> r.mode, resumed |-> r.resumed,
     stepped |-> r.stepped, steperr |-> r.steperr, took |-> r.took,
     taken |-> r.taken, args |-> r.args]

Apply(op, r) ==
    /\ threads' = r.threads
    /\ stack' = r.stack
    /\ outcome' = r.outcome
    /\ seq' = r.seq
    /\ last' = Trace(op, stack, r)
    /\ delivered' = IF r.took /\ r.taken.some /\ r.taken.ok /\ ~threads[r.t].yielded
                    THEN delivered \cup {r.t}
                    ELSE delivered
    /\ UNCHANGED <<heap, made, cblast>>

\* A panic ends the host process.
Aborted == outcome.tag = "Panic"

\* No call is in progress: the dispatch loop is free to make one.
Idle == ~Aborted /\ seq = "none"

\* The arguments of the next call are on the stack.
Ready == Idle /\ last.op = "prepare"

\* Between calls: the results of the last call have been consumed.
RestTrace == Trace("rest", <<>>, Plain(<<>>, <<>>, Outcome("none"), "none"))

\* The values a caller can put first on a stack, and the further arguments.
Values ==
    {Nil}
        \cup {FunctionValue(f) : f \in Functions}
        \cup {ThreadValue(t) : t \in 1..Len(threads)}

\* The further arguments of a call: none, or two distinct values in order.
ArgLists == {<<>>, <<Integer(1), Nil>>}

Stacks == {<<>>} \cup {<<v>> \o a : v \in Values, a \in ArgLists}

Init ==
    /\ threads = <<>>
    /\ stack = <<>>
    /\ seq = "none"
    /\ outcome = Outcome("none")
    /\ last = Trace("init", <<>>, Plain(<<>>, <<>>, Outcome("none"), "none"))
    /\ delivered = {}
    /\ heap = <<>>
    /\ made = <<>>
    /\ cblast = CbTrace("init", 0, <<>>, NoError, {})

\* The caller sets up the arguments of the next call.
Prepare(s) ==
    /\ Idle
    /\ last.op \in {"init", "rest"}
    /\ stack' = s
    /\ outcome' = Outcome("none")
    /\ last' = Trace("prepare", <<>>, Plain(threads, s, Outcome("none"), "none"))
    /\ UNCHANGED <<threads, seq, delivered, heap, made, cblast>>

\* The caller takes the results of a finished call off the stack.
Collect ==
    /\ Idle
    /\ last.op \notin {"init", "rest", "prepare"}
    /\ stack' = <<>>
    /\ outcome' = Outcome("none")
    /\ last' = RestTrace
    /\ UNCHANGED <<threads, seq, delivered, heap, made, cblast>>

Create ==
    /\ Ready
    /\ FirstArg(stack).kind = "Function" => Len(threads) < MaxThreads
    /\ Apply("create", CreateCall(threads, stack))

Resume ==
    /\ Ready
    /\ Apply("resume", ResumeCall(threads, stack))

Status ==
    /\ Ready
    /\ Apply("status", StatusCall(threads, stack))

Yield ==
    /\ Ready
    /\ Apply("yield", YieldCall(threads, stack))

\* The dispatch loop steps the sequence it holds.
SeqStep ==
    /\ ~Aborted
    /\ seq = "active"
    /\ \E fail \in BOOLEAN : Apply("seq_step", SeqStepCall(threads, stack, fail))

\* An operation of the host on a thread, outside the library.  It leaves
\* the stack of a pending sequence alone.
Host(ths) ==
    /\ ~Aborted
    /\ threads' = ths
    /\ last' = RestTrace
    /\ outcome' = Outcome("none")
    /\ stack' = IF seq = "active" THEN stack ELSE <<>>
    /\ UNCHANGED <<seq, delivered, heap, made, cblast>>

\* The host drives a thread through the Thread interface directly: the
\* thread is Running while its own step is in progress, one step at a time.
HostResume(t) ==
    /\ ThreadResume(threads, t, <<>>).ok
    /\ Host(ThreadResume(threads, t, <<>>).threads)

HostStepBegin(t) ==
    /\ threads[t].mode = "Normal"
    /\ \A u \in 1..Len(threads) : threads[u].mode # "Running"
    /\ Host([threads EXCEPT ![t].mode = "Running"])

HostStepEnd(t) ==
    /\ threads[t].mode = "Running"
    /\ Host(ExecOp(threads, t))

HostTakeReturn(t) ==
    /\ TakeReturn(threads, t).some
    /\ Host(TakeReturn(threads, t).threads)

Next ==
    \/ \E s \in Stacks : Prepare(s)
    \/ Collect
    \/ Create
    \/ Resume
    \/ Status
    \/ Yield
    \/ SeqStep
    \/ \E t \in 1..Len(threads) : HostResume(t)
    \/ \E t \in 1..Len(threads) : HostStepBegin(t)
    \/ \E t \in 1..Len(threads) : HostStepEnd(t)
    \/ \E t \in 1..Len(threads) : HostTakeReturn(t)

Spec == Init /\ [][Next]_vars

\* The library alone drives the threads: no host operation interleaves.
LibNext ==
    \/ \E s \in Stacks : Prepare(s)
    \/ Collect
    \/ Create
    \/ Resume
    \/ Status
    \/ Yield
    \/ SeqStep

LibSpec == Init /\ [][LibNext]_vars

\* The dispatch loop keeps stepping the sequence it holds.
LiveSpec == Init /\ [][LibNext]_vars /\ WF_vars(SeqStep)

(***************************************************************************)
(* The callback state machine: a host that builds callbacks and            *)
(* continuations and invokes them on stacks it has set up.                 *)
(***************************************************************************)
\* The addresses of the collector's heap.
HeapSize == 3
AddressSpace == 1..HeapSize

\* The integers a callback captures, and the one a continuation captures.
Captures == {TestCapture, 0}
Contexts == {TestCapture}

CbErrors == {RuntimeError(String("boom")), TypeError("thread", "nil")}

\* What a construction was given.
Supplied(via, context, fn, errfn) ==
    [via |-> via, context |-> context, fn |-> fn, errfn |-> errfn]

Callbacks == {i \in 1..Len(heap) : made[i].via \in {"new", "from_fn", "from_fn_with"}}
Continuations == (1..Len(heap)) \ Callbacks

Constructed(hp, supplied) ==
    /\ heap' = hp
    /\ made' = Append(made, supplied)
    /\ cblast' = CbTrace("construct", hp[Len(hp)].addr, <<>>, NoError, {})
    /\ UNCHANGED <<threads, stack, seq, outcome, last, delivered>>

Invoked(op, ptr, error, r) ==
    /\ stack' = r.stack
    /\ outcome' = r.outcome
    /\ cblast' = CbTrace(op, ptr, stack, error, r.ran)
    /\ UNCHANGED <<threads, seq, last, delivered, heap, made>>

CanAllocate(addr) == Len(heap) < MaxAllocs /\ addr \notin Addresses(heap)

SetStack(s) ==
    /\ stack' = s
    /\ outcome' = Outcome("none")
    /\ cblast' = CbTrace("set_stack", 0, <<>>, NoError, {})
    /\ UNCHANGED <<threads, seq, last, delivered, heap, made>>

ConstructNew ==
    \E addr \in AddressSpace, c \in Captures :
        /\ CanAllocate(addr)
        /\ Constructed(New(heap, addr, CB(c)),
                       Supplied("new", Integer(c), "CB", "none"))

ConstructFromFn ==
    \E addr \in AddressSpace, f \in PlainFns :
        /\ CanAllocate(addr)
        /\ Constructed(FromFn(heap, addr, f), Supplied("from_fn", Unit, f, "none"))

ConstructFromFnWith ==
    \E addr \in AddressSpace, c \in Captures, f \in ContextFns :
        /\ CanAllocate(addr)
        /\ Constructed(FromFnWith(heap, addr, Integer(c), Closure(f)),
                       Supplied("from_fn_with", Integer(c), f, "none"))

ConstructFromFns ==
    \E addr \in AddressSpace, f \in PlainFns, e \in PlainErrFns :
        /\ CanAllocate(addr)
        /\ Constructed(FromFns(heap, addr, f, e), Supplied("from_fns", Unit, f, e))

ConstructFromFnsWith ==
    \E addr \in AddressSpace, c \in Contexts, f \in ContextFns, e \in ContextErrFns :
        /\ CanAllocate(addr)
        /\ Constructed(FromFnsWith(heap, addr, Integer(c), Closure(f), Closure(e)),
                       Supplied("from_fns_with", Integer(c), f, e))

ConstructFromOkFn ==
    \E addr \in AddressSpace, f \in PlainFns :
        /\ CanAllocate(addr)
        /\ Constructed(FromOkFn(heap, addr, f), Supplied("from_ok_fn", Unit, f, "none"))

ConstructFromOkFnWith ==
    \E addr \in AddressSpace, c \in Contexts, f \in ContextFns :
        /\ CanAllocate(addr)
        /\ Constructed(FromOkFnWith(heap, addr, Integer(c), Closure(f)),
                       Supplied("from_ok_fn_with", Integer(c), f, "none"))

CallHandle ==
    \E i \in Callbacks :
        /\ stack \in ArgLists
        /\ Invoked("call", heap[i].addr, NoError,
                   Call(heap, Handle(heap[i].addr), stack))

ResumeOk ==
    \E i \in Continuations :
        /\ stack \in ArgLists
        /\ Invoked("continue_ok", heap[i].addr, NoError,
                   ContinueOk(heap, Handle(heap[i].addr), stack))

ResumeErr ==
    \E i \in Continuations, e \in CbErrors :
        /\ stack \in ArgLists
        /\ Invoked("continue_err", heap[i].addr, e,
                   ContinueErr(heap, Handle(heap[i].addr), stack, e))

CbNext ==
    \/ \E s \in ArgLists : SetStack(s)
    \/ ConstructNew
    \/ ConstructFromFn
    \/ ConstructFromFnWith
    \/ ConstructFromFns
    \/ ConstructFromFnsWith
    \/ ConstructFromOkFn
    \/ ConstructFromOkFnWith
    \/ CallHandle
    \/ ResumeOk
    \/ ResumeErr

CbSpec == Init /\ [][CbNext]_vars

(***************************************************************************)
(* Properties                                                              *)
(***************************************************************************)
\* The type name a call finds in its first argument, nil when it is missing.
FoundName(stk) == IF Len(stk) = 0 THEN "nil" ELSE TypeName(stk[1])

\* The text of a string value.
Text(value) == IF value.kind = "String" THEN StrTab[value.v] ELSE ""

\* The errors the script functions raise.
ScriptErrors ==
    UNION {{Scripts[f][i].err : i \in {j \in 1..Len(Scripts[f]) : Scripts[f][j].op = "error"}}
           : f \in Functions}

\* The function of thread t has raised its error.
Raised(t) ==
    /\ threads[t].fn \in Functions
    /\ threads[t].mode \in {"Return", "Stopped"}
    /\ ~threads[t].yielded
    /\ Scripts[threads[t].fn][threads[t].pc].op = "error"

\* Function f yields some number of times and then returns.
YieldsThenReturns(f) ==
    /\ f \in Functions
    /\ Scripts[f][Len(Scripts[f])].op = "return"
    /\ \A i \in 1..(Len(Scripts[f]) - 1) : Scripts[f][i].op = "yield"

\* C1: a sequence step that observes mode Return replaces the whole stack
\* with (true, results...) for a success and with (false, error value) for an
\* error, and its outcome is Return; nothing of the previous stack remains.
C1_ReturnReplacesStack ==
    (last.op = "seq_step" /\ last.mode = "Return") =>
        /\ outcome = Outcome("Return")
        /\ last.took
        /\ last.taken.some
        /\ last.taken.ok => stack = <<Boolean(TRUE)>> \o last.taken.vals
        /\ ~last.taken.ok => stack = <<Boolean(FALSE), ToValue(last.taken.err)>>
        /\ \A i \in 1..Len(stack) : stack[i] # last.pre[1]

C1_Witness ==
    /\ last.op = "seq_step"
    /\ last.mode = "Return"
    /\ last.taken.ok
    /\ stack = <<Boolean(TRUE), Integer(1), Integer(2)>>

\* C2: when the function of a resumed coroutine raises an error, the step
\* that takes the result ends the resume with outcome Return and the stack
\* (false, error value); no call or step ever fails with a script's error.
C2_ErrorIsReturnedAsValue ==
    /\ (last.op = "seq_step" /\ last.took /\ Raised(last.t)) =>
          /\ outcome = Outcome("Return")
          /\ stack = <<Boolean(FALSE),
                       Scripts[threads[last.t].fn][threads[last.t].pc].err.value>>
    /\ outcome.tag = "Err" => outcome.err \notin ScriptErrors

C2_Witness ==
    /\ last.op = "seq_step"
    /\ last.took
    /\ Raised(last.t)
    /\ stack = <<Boolean(FALSE), String("boom")>>

\* C3: with the library alone driving a coroutine whose function yields k
\* times and then returns, no step of a resume fails with an error, and the
\* i-th resume ends with Return and (true, the i-th yielded values) and
\* status "suspended" for i <= k, and with (true, the returned values) and
\* status "dead" for i = k + 1.
C3_YieldsThenReturn ==
    (last.op = "seq_step" /\ last.t # 0 /\ YieldsThenReturns(threads[last.t].fn)) =>
        LET th == threads[last.t]
            script == Scripts[th.fn]
            k == Len(script) - 1
        IN  /\ outcome.tag # "Err"
            /\ outcome.tag = "Panic" => last.steperr # NoError
            /\ last.took =>
                 /\ outcome = Outcome("Return")
                 /\ IF th.yielded
                    THEN /\ th.pc - 1 \in 1..k
                         /\ stack = <<Boolean(TRUE)>> \o script[th.pc - 1].vals
                         /\ StatusName(th.mode) = "suspended"
                    ELSE /\ th.pc = k + 1
                         /\ stack = <<Boolean(TRUE)>> \o script[k + 1].vals
                         /\ StatusName(th.mode) = "dead"

C3_Witness ==
    /\ last.op = "seq_step"
    /\ last.took
    /\ last.t # 0
    /\ Len(Scripts[threads[last.t].fn]) = 2
    /\ YieldsThenReturns(threads[last.t].fn)
    /\ ~threads[last.t].yielded
    /\ stack = <<Boolean(TRUE), Integer(20)>>
    /\ StatusName(threads[last.t].mode) = "dead"

\* C4: once a resume has delivered the final return values of a thread, the
\* status of that thread is "dead" in every later state, and every status
\* call on it returns "dead".
C4_DeadForever ==
    \A t \in delivered :
        /\ StatusName(threads[t].mode) = "dead"
        /\ (last.op = "status" /\ last.t = t) =>
              /\ outcome = Outcome("Return")
              /\ Len(stack) = 1
              /\ Text(stack[1]) = "dead"

C4_Witness ==
    /\ last.op = "status"
    /\ last.t \in delivered
    /\ stack = <<String("dead")>>

\* C5: resume on a thread that is not Suspended fails with the runtime error
\* "cannot resume thread", returns no sequence, and does not step or change
\* the thread.
C5_CannotResume ==
    (last.op = "resume" /\ last.t # 0 /\ last.mode # "Suspended") =>
        /\ outcome.tag = "Err"
        /\ outcome.err.kind = "RuntimeError"
        /\ Text(outcome.err.value) = "cannot resume thread"
        /\ seq = "none"
        /\ ~last.stepped
        /\ ~last.took
        /\ threads[last.t].mode = last.mode

C5_Witness ==
    /\ last.op = "resume"
    /\ last.mode = "Running"
    /\ outcome.tag = "Err"

\* C6: when a sequence step observes mode Normal and the thread's step
\* operation fails, the failure is returned as the step's error and the
\* sequence ends without a host abort; when it succeeds the step reports
\* "not done".
C6_StepFailureReturned ==
    (last.op = "seq_step" /\ last.mode = "Normal") =>
        IF last.steperr # NoError
        THEN outcome = Failed(last.steperr) /\ seq = "none"
        ELSE outcome = Outcome("NotDone")

\* C7: a sequence step that observes Running, Suspended or Stopped fails
\* with BadThreadMode(expected Normal, found the observed mode), leaves the
\* stack unchanged and calls neither step nor take_return.
C7_BadThreadMode ==
    (last.op = "seq_step" /\ last.mode \in {"Running", "Suspended", "Stopped"}) =>
        /\ outcome.tag = "Err"
        /\ outcome.err.kind = "BadThreadMode"
        /\ outcome.err.expected = "Normal"
        /\ outcome.err.found = last.mode
        /\ stack = last.pre
        /\ ~last.stepped
        /\ ~last.took
        /\ threads[last.t].mode = last.mode

C7_Witness ==
    /\ last.op = "seq_step"
    /\ last.mode = "Suspended"
    /\ outcome.tag = "Err"

\* C8: create fails with TypeError(expected "function", found the type name
\* of its first argument, nil when missing) unless that argument is a
\* function; with a function it returns Return, and the stack holds exactly
\* one value, a thread that did not exist before, whose status is
\* "suspended"; the existing threads are untouched.
C8_Create ==
    [][last'.op = "create" =>
        IF FoundName(stack) # "function"
        THEN /\ outcome' = Failed(TypeError("function", FoundName(stack)))
             /\ threads' = threads
        ELSE /\ outcome' = Outcome("Return")
             /\ Len(stack') = 1
             /\ stack'[1].kind = "Thread"
             /\ stack'[1].v \notin 1..Len(threads)
             /\ stack'[1].v \in 1..Len(threads')
             /\ StatusName(threads'[stack'[1].v].mode) = "suspended"
             /\ \A t \in 1..Len(threads) : threads'[t] = threads[t]]_vars

C8_Witness ==
    /\ last.op = "create"
    /\ outcome.tag = "Return"
    /\ Len(last.pre) = 3
    /\ Len(threads) = 2
    /\ stack = <<ThreadValue(2)>>

\* C9: resume and status fail with TypeError(expected "thread", found the
\* type name of the first argument, nil when missing) when that argument is
\* not a thread; the failure is an error value, not an abort.
C9_ThreadTypeError ==
    (last.op \in {"resume", "status"} /\ FoundName(last.pre) # "thread") =>
        /\ outcome.tag = "Err"
        /\ outcome.err.kind = "TypeError"
        /\ outcome.err.expected = "thread"
        /\ outcome.err.found = FoundName(last.pre)

C9_Witness ==
    /\ last.op = "resume"
    /\ Len(last.pre) >= 1
    /\ last.pre[1].kind = "Function"
    /\ outcome.err.found = "function"

\* The documented status string of a mode.
DocumentedStatus(mode) ==
    CASE mode = "Stopped" -> "dead"
      [] mode = "Return" -> "dead"
      [] mode = "Running" -> "running"
      [] mode = "Normal" -> "normal"
      [] mode = "Suspended" -> "suspended"

\* C10: status on a thread returns Return and leaves exactly one string on
\* the stack, the documented one for the thread's mode, and changes no
\* thread.
C10_Status ==
    [][(last'.op = "status" /\ FirstArg(stack).kind = "Thread") =>
        /\ outcome' = Outcome("Return")
        /\ Len(stack') = 1
        /\ stack'[1].kind = "String"
        /\ Text(stack'[1]) = DocumentedStatus(threads[stack[1].v].mode)
        /\ threads' = threads]_vars

C10_Witness ==
    /\ last.op = "status"
    /\ last.mode = "Return"
    /\ stack = <<String("dead")>>


\* C11: yield, whatever is on the stack and whatever state the threads are
\* in, returns the outcome Yield with no continuation, leaves the stack as it
\* received it, and touches no thread and no sequence.
C11_Yield ==
    [][last'.op = "yield" =>
        /\ outcome'.tag = "Yield"
        /\ outcome'.cont = "none"
        /\ outcome'.err = NoError
        /\ stack' = stack
        /\ threads' = threads
        /\ seq' = seq]_vars

C11_Witness ==
    /\ last.op = "yield"
    /\ outcome.tag = "Yield"
    /\ Len(stack) = 3
    /\ \E t \in 1..Len(threads) : threads[t].mode = "Running"


\* C16: a sequence step calls the thread's step operation exactly when the
\* mode it observed is Normal, and then leaves the stack unchanged and
\* reports "not done".
C16_StepsOnlyInNormal ==
    (last.op = "seq_step" /\ last.t # 0) =>
        /\ last.stepped <=> last.mode = "Normal"
        /\ last.mode = "Normal" =>
              /\ stack = last.pre
              /\ outcome = Outcome("NotDone")

\* C17: resume on a thread hands the stack values after the first, in order,
\* to the thread's resume transition and leaves only the thread on the
\* stack, accepted or rejected; the stack of a pending sequence is not
\* changed between its steps, so every step finds that thread at index 0 and
\* never aborts with "thread lost from stack".
C17_ThreadStaysOnStack ==
    [][/\ (last'.op = "resume" /\ FirstArg(stack).kind = "Thread") =>
            /\ last'.resumed
            /\ last'.t = stack[1].v
            /\ last'.args = SubSeq(stack, 2, Len(stack))
            /\ stack' = <<stack[1]>>
       /\ (seq = "active" /\ seq' = "active") => stack' = stack
       /\ last'.op = "seq_step" =>
            /\ Len(stack) = 1
            /\ stack[1].kind = "Thread"
            /\ last'.t = stack[1].v
            /\ last.op \in {"resume", "seq_step"} => last'.t = last.t
            /\ outcome' # Panic("thread lost from stack")]_vars

C17_Witness ==
    /\ last.op = "seq_step"
    /\ last.mode = "Normal"
    /\ seq = "active"
    /\ stack = <<ThreadValue(last.t)>>
    /\ Len(threads) = 2

\* C18: with the library alone driving the threads, take_return is called
\* only by a sequence step that observed mode Return, it finds a result, and
\* it is the last thing that sequence does.
C18_TakeReturnOnlyInReturn ==
    /\ last.took =>
          /\ last.op = "seq_step"
          /\ last.mode = "Return"
          /\ last.taken.some
          /\ seq = "none"
          /\ outcome = Outcome("Return")
    /\ outcome # Panic("take_return")

C18_Witness ==
    /\ last.op = "seq_step"
    /\ last.took
    /\ last.taken.some
    /\ seq = "none"

\* C19: a create, resume or status that fails with a type error leaves the
\* stack as it was, creates no thread and changes no thread.
C19_TypeErrorChangesNothing ==
    [][(/\ last'.op \in {"create", "resume", "status"}
        /\ outcome'.tag = "Err"
        /\ outcome'.err.kind = "TypeError") =>
            /\ stack' = stack
            /\ threads' = threads
            /\ seq' = seq]_vars

C19_Witness ==
    /\ last.op = "status"
    /\ outcome.tag = "Err"
    /\ outcome.err.kind = "TypeError"
    /\ Len(stack) = 3
    /\ Len(threads) >= 1


\* The thread a pending sequence drives is in mode Normal.
DrivenNormal ==
    /\ Len(stack) >= 1
    /\ stack[1].kind = "Thread"
    /\ threads[stack[1].v].mode = "Normal"

\* The sequence has ended with a terminal outcome or a failure.
Ended == seq = "none" /\ outcome.tag \in {"Return", "Err"}

\* C12: a sequence that the dispatch loop keeps stepping ends, with a
\* terminal outcome or a failure, unless the thread it drives stays in mode
\* Normal for ever; it is stepped again while it answers "not done", and it
\* is stepped only if it was just returned or its last answer was "not
\* done", never after it has ended.
C12_SequenceEnds ==
    /\ [](seq = "active" => ([]DrivenNormal \/ <>Ended))
    /\ [][last'.op = "seq_step" =>
            /\ seq = "active"
            /\ outcome.tag \in {"Sequence", "NotDone"}
            /\ outcome'.tag = "NotDone" => seq' = "active"
            /\ outcome'.tag \in {"Return", "Err"} => seq' = "none"]_vars

C12_Witness ==
    /\ last.op = "seq_step"
    /\ seq = "none"
    /\ outcome.tag = "Return"
    /\ Len(Scripts[threads[last.t].fn]) = 2
    /\ Scripts[threads[last.t].fn][1].op = "work"


\* C13: equality of callback handles is reflexive and symmetric and holds
\* exactly when the two handles have the same as_ptr; equal handles hash
\* equally; a copy of a handle equals the original; handles of separate
\* constructions are unequal, whatever they captured.
C13_HandleEquality ==
    \A i, j \in Callbacks :
        LET a == Handle(heap[i].addr)
            b == Handle(heap[j].addr)
        IN  /\ CallbackEq(a, a)
            /\ CallbackEq(a, b) <=> CallbackEq(b, a)
            /\ CallbackEq(a, b) <=> AsPtr(a) = AsPtr(b)
            /\ CallbackEq(a, b) => CallbackHash(a) = CallbackHash(b)
            /\ CallbackEq(CopyOf(a), a)
            /\ CallbackEq(a, b) <=> i = j

\* Two constructions given the same state and behaviour, whose handles
\* hash equally.
C13_Witness ==
    \E i, j \in Callbacks :
        /\ i # j
        /\ made[i] = made[j]
        /\ CallbackHash(Handle(heap[i].addr)) = CallbackHash(Handle(heap[j].addr))

\* What the implementation a construction was given does when it is invoked
\* directly on a stack.
Direct(supplied, stk) ==
    CASE supplied.via = "new" -> CBCall(CB(supplied.context.v), stk)
      [] supplied.via \in {"from_fn", "from_fns", "from_ok_fn"} ->
            PlainFn(supplied.fn, stk)
      [] OTHER -> ContextFn(supplied.fn, supplied.context, stk)

\* C14: a call of a handle leaves the stack and the outcome that the
\* implementation the handle was built from gives when invoked directly on
\* the same stack, with the state that handle captured; a callback that
\* pushes its capture leaves the capture first on the stack and returns
\* Return; the call fails exactly when the implementation fails, with its
\* error.
C14_CallRunsOwnImplementation ==
    cblast.op = "call" =>
        \A i \in Callbacks :
            heap[i].addr = cblast.ptr =>
                /\ stack = Direct(made[i], cblast.pre).stack
                /\ outcome = Direct(made[i], cblast.pre).outcome
                /\ cblast.ran = Direct(made[i], cblast.pre).ran
                /\ made[i].via = "new" =>
                      /\ stack = <<made[i].context>> \o cblast.pre
                      /\ outcome = Outcome("Return")
                /\ made[i].fn \in {"fail", "raise"} <=> outcome.tag = "Err"
                /\ made[i].fn = "raise" => outcome.err = RuntimeError(made[i].context)

\* The callback of the test, built after another one with another capture,
\* has been called on an empty stack.
C14_Witness ==
    /\ cblast.op = "call"
    /\ Len(heap) = 2
    /\ cblast.ptr = heap[2].addr
    /\ made[2] = Supplied("new", Integer(TestCapture), "CB", "none")
    /\ made[1] = Supplied("new", Integer(0), "CB", "none")
    /\ stack = <<Integer(TestCapture)>>
    /\ outcome = Outcome("Return")

\* C15: on a continuation built by from_ok_fn or from_ok_fn_with,
\* continue_err fails with exactly the error it was given, runs no success
\* behaviour and leaves the stack as it was; continue_ok runs the success
\* behaviour it was built from, with the captured context, and returns its
\* result.
C15_SuccessOnlyContinuation ==
    \A i \in Continuations :
        (heap[i].addr = cblast.ptr /\ made[i].via \in {"from_ok_fn", "from_ok_fn_with"}) =>
            /\ cblast.op = "continue_err" =>
                  /\ cblast.err \in CbErrors
                  /\ outcome = Failed(cblast.err)
                  /\ stack = cblast.pre
                  /\ cblast.ran \cap (PlainFns \cup ContextFns) = {}
            /\ cblast.op = "continue_ok" =>
                  /\ stack = Direct(made[i], cblast.pre).stack
                  /\ outcome = Direct(made[i], cblast.pre).outcome
                  /\ cblast.ran = {made[i].fn}

C15_Witness ==
    /\ cblast.op = "continue_err"
    /\ cblast.pre = <<Integer(1), Nil>>
    /\ cblast.err = TypeError("thread", "nil")
    /\ outcome.tag = "Err"
    /\ \E i \in Continuations :
          /\ heap[i].addr = cblast.ptr
          /\ made[i].via = "from_ok_fn_with"
          /\ made[i].fn = "push"

====
